---- MODULE Spec2Model ----
(***************************************************************************)
(* Model of the TMBC gallery: the three route handlers (list files,        *)
(* upload file, serve media) over a small file system, the Home page       *)
(* component, and the MediaDisplay component.                              *)
(*                                                                         *)
(* Strings that the code takes apart (file names, paths, header values)    *)
(* are sequences of one-character strings; strings that the code only      *)
(* compares or passes on (the type parameter, messages, MIME types) are    *)
(* TLA+ strings.                                                           *)
(***************************************************************************)
EXTENDS Integers, Sequences, FiniteSets, Bags, TLC

\* ------------------------------------------------------------------ bounds
MaxUploads == 2

\* ------------------------------------------------------------ JS strings
\* null, as returned by searchParams.get / formData.get for an absent field
NullStr == <<"<null>">>
NullType == "<null>"

\* !s for a string-or-null value held as a character sequence
Falsy(s) == s = NullStr \/ s = <<>>

\* !t for a string-or-null value held as a TLA+ string
FalsyType(t) == t = NullType \/ t = ""

UpperChars == <<"A","B","C","D","E","F","G","H","I","J","K","L","M",
                "N","O","P","Q","R","S","T","U","V","W","X","Y","Z">>
LowerChars == <<"a","b","c","d","e","f","g","h","i","j","k","l","m",
                "n","o","p","q","r","s","t","u","v","w","x","y","z">>

ToLowerChar(c) ==
  IF \E i \in 1..26 : UpperChars[i] = c
    THEN LowerChars[CHOOSE i \in 1..26 : UpperChars[i] = c]
    ELSE c

\* String.prototype.toLowerCase
ToLowerCase(s) == [i \in 1..Len(s) |-> ToLowerChar(s[i])]

\* String.prototype.startsWith
StartsWith(s, p) == Len(s) >= Len(p) /\ SubSeq(s, 1, Len(p)) = p

EndsWith(s, p) == Len(s) >= Len(p) /\ SubSeq(s, Len(s) - Len(p) + 1, Len(s)) = p

\* String.prototype.split(c): the pieces between the occurrences of c
RECURSIVE SplitFrom(_, _, _, _)
SplitFrom(s, c, i, cur) ==
  IF i > Len(s) THEN <<cur>>
  ELSE IF s[i] = c THEN <<cur>> \o SplitFrom(s, c, i + 1, <<>>)
  ELSE SplitFrom(s, c, i + 1, Append(cur, s[i]))

Split(s, c) == SplitFrom(s, c, 1, <<>>)

\* Array.prototype.join(c)
RECURSIVE JoinWith(_, _)
JoinWith(segs, c) ==
  IF Len(segs) = 0 THEN <<>>
  ELSE IF Len(segs) = 1 THEN segs[1]
  ELSE segs[1] \o <<c>> \o JoinWith(Tail(segs), c)

\* Number.prototype.toString for a non-negative integer
Digits == <<"0","1","2","3","4","5","6","7","8","9">>

RECURSIVE NumToString(_)
NumToString(n) ==
  IF n < 10 THEN <<Digits[n + 1]>>
  ELSE NumToString(n \div 10) \o <<Digits[(n % 10) + 1]>>

\* the number a decimal string denotes (used to read a header back)
DigitValue(c) == (CHOOSE i \in 1..10 : Digits[i] = c) - 1

RECURSIVE ParseDecimal(_)
ParseDecimal(s) ==
  IF Len(s) = 0 THEN 0
  ELSE 10 * ParseDecimal(SubSeq(s, 1, Len(s) - 1)) + DigitValue(s[Len(s)])

\* ------------------------------------------------------------- node:path
\* normalizeString of a POSIX path: drops '' and '.', resolves '..'
RECURSIVE NormalizeSegs(_, _, _)
NormalizeSegs(segs, res, allowAboveRoot) ==
  IF Len(segs) = 0 THEN res
  ELSE LET seg == Head(segs)
           rest == Tail(segs)
       IN IF seg = <<>> \/ seg = <<".">> THEN NormalizeSegs(rest, res, allowAboveRoot)
          ELSE IF seg = <<".", ".">> THEN
            IF Len(res) > 0 /\ res[Len(res)] # <<".", ".">>
              THEN NormalizeSegs(rest, SubSeq(res, 1, Len(res) - 1), allowAboveRoot)
            ELSE IF allowAboveRoot
              THEN NormalizeSegs(rest, Append(res, seg), allowAboveRoot)
            ELSE NormalizeSegs(rest, res, allowAboveRoot)
          ELSE NormalizeSegs(rest, Append(res, seg), allowAboveRoot)

\* path.posix.normalize
Normalize(path) ==
  IF Len(path) = 0 THEN <<".">>
  ELSE LET isAbsolute == path[1] = "/"
           trailingSeparator == path[Len(path)] = "/"
           body == JoinWith(NormalizeSegs(Split(path, "/"), <<>>, ~isAbsolute), "/")
       IN IF Len(body) = 0
            THEN (IF isAbsolute THEN <<"/">>
                  ELSE IF trailingSeparator THEN <<".", "/">> ELSE <<".">>)
            ELSE (IF isAbsolute THEN <<"/">> ELSE <<>>) \o body
                 \o (IF trailingSeparator THEN <<"/">> ELSE <<>>)

\* path.posix.join of two arguments
join(a, b) ==
  IF Len(a) = 0 /\ Len(b) = 0 THEN <<".">>
  ELSE IF Len(b) = 0 THEN Normalize(a)
  ELSE IF Len(a) = 0 THEN Normalize(b)
  ELSE Normalize(a \o <<"/">> \o b)

\* process.cwd(): the directory the server runs in
Cwd == <<"/", "a", "p", "p">>

publicPath == join(Cwd, <<"p","u","b","l","i","c">>)
imagesDir == <<"i","m","a","g","e","s">>
videosDir == <<"v","i","d","e","o","s">>

\* the folder of a type: public/images for 'images', public/videos otherwise
folderPathOf(type) ==
  IF type = "images" THEN join(publicPath, imagesDir) ELSE join(publicPath, videosDir)

\* ------------------------------------------------------------ file system
\* A file system is [dirs: set of paths, files: path -> bytes]; paths are
\* absolute and normalised, bytes are sequences of numbers.
StripSlash(p) == IF Len(p) > 1 /\ p[Len(p)] = "/" THEN SubSeq(p, 1, Len(p) - 1) ELSE p

\* path.dirname of a normalised absolute path
Dirname(p) == Normalize(StripSlash(p) \o <<"/", ".", ".">>)

\* a directory and all directories above it
RECURSIVE AncestorsAndSelf(_)
AncestorsAndSelf(p) ==
  IF p = <<"/">> THEN {p} ELSE {p} \cup AncestorsAndSelf(Dirname(p))

\* fs.existsSync: a trailing separator only matches a directory
existsSync(fs, p) ==
  IF StripSlash(p) # p THEN StripSlash(p) \in fs.dirs
  ELSE p \in fs.dirs \/ p \in DOMAIN fs.files

\* fs.mkdirSync(p, {recursive: true}); ok is FALSE when a file is in the way
mkdirSync(fs, p) ==
  IF \E a \in AncestorsAndSelf(p) : a \in DOMAIN fs.files
    THEN [ok |-> FALSE, fs |-> fs]
    ELSE [ok |-> TRUE, fs |-> [fs EXCEPT !.dirs = @ \cup AncestorsAndSelf(p)]]

\* fs/promises.writeFile; io is an injected failure (EACCES, ENOSPC, ...)
writeFile(fs, p, bytes, io) ==
  IF io \/ StripSlash(p) # p \/ p \in fs.dirs \/ Dirname(p) \notin fs.dirs
    THEN [ok |-> FALSE, fs |-> fs]
    ELSE [ok |-> TRUE,
          fs |-> [fs EXCEPT !.files =
                    [q \in DOMAIN fs.files \cup {p} |->
                       IF q = p THEN bytes ELSE fs.files[q]]]]

\* fs/promises.readFile
readFile(fs, p, io) ==
  IF io \/ p \notin DOMAIN fs.files
    THEN [ok |-> FALSE, data |-> <<>>]
    ELSE [ok |-> TRUE, data |-> fs.files[p]]

\* the names of the entries directly inside directory d
EntryNames(fs, d) ==
  { SubSeq(p, Len(d) + 2, Len(p)) :
      p \in { q \in fs.dirs \cup DOMAIN fs.files :
                /\ StartsWith(q, d \o <<"/">>)
                /\ Len(q) > Len(d) + 1
                /\ \A i \in (Len(d) + 2)..Len(q) : q[i] # "/" } }

\* a set as an array, in the order the operating system happens to use
RECURSIVE SetToSeq(_)
SetToSeq(S) ==
  IF S = {} THEN <<>>
  ELSE LET x == CHOOSE y \in S : TRUE IN <<x>> \o SetToSeq(S \ {x})

\* fs/promises.readdir
readdir(fs, d, io) ==
  IF io \/ d \notin fs.dirs
    THEN [ok |-> FALSE, entries |-> <<>>]
    ELSE [ok |-> TRUE, entries |-> SetToSeq(EntryNames(fs, d))]

Range(seq) == { seq[i] : i \in 1..Len(seq) }

\* ------------------------------------------------------------- responses
JsonError(status, msg) == [status |-> status, kind |-> "json", error |-> msg]

\* --------------------------------------------------- GET /api/files
imageExtensions ==
  { <<"j","p","g">>, <<"j","p","e","g">>, <<"p","n","g">>, <<"g","i","f">>,
    <<"w","e","b","p">>, <<"s","v","g">> }

videoExtensions ==
  { <<"m","p","4">>, <<"w","e","b","m">>, <<"o","g","g">>, <<"m","o","v">> }

\* /\.(ext|...)$/i.test(file)
MatchesExtension(file, exts) ==
  \E e \in exts : EndsWith(ToLowerCase(file), <<".">> \o e)

\* ListFilter with the regular expressions' i flag forgotten
ListFilterCaseSensitive(type, file) ==
  IF type = "images" THEN \E e \in imageExtensions : EndsWith(file, <<".">> \o e)
  ELSE \E e \in videoExtensions : EndsWith(file, <<".">> \o e)

ListFilter(type, file) ==
  IF type = "images" THEN MatchesExtension(file, imageExtensions)
  ELSE MatchesExtension(file, videoExtensions)

FilesRoute(fs, type, io) ==
  LET listing == readdir(fs, folderPathOf(type), io)
      Keep(file) == ListFilter(type, file)
  IN IF ~listing.ok THEN JsonError(500, "Failed to read files")
     ELSE [status |-> 200, kind |-> "json", files |-> SelectSeq(listing.entries, Keep)]

\* --------------------------------------------------- GET /api/media
imageTypes ==
  (<<"j","p","g">> :> "image/jpeg") @@ (<<"j","p","e","g">> :> "image/jpeg") @@
  (<<"p","n","g">> :> "image/png") @@ (<<"g","i","f">> :> "image/gif") @@
  (<<"w","e","b","p">> :> "image/webp") @@ (<<"s","v","g">> :> "image/svg+xml")

videoTypes ==
  (<<"m","p","4">> :> "video/mp4") @@ (<<"w","e","b","m">> :> "video/webm") @@
  (<<"o","g","g">> :> "video/ogg") @@ (<<"m","o","v">> :> "video/quicktime")

\* What an object literal inherits: the members of Object.prototype whose
\* name is all lower case (ext is lower-cased before the lookup), as the
\* header receives them, i.e. converted to a string.
ObjectPrototype ==
  (<<"c","o","n","s","t","r","u","c","t","o","r">> :> "function Object() { [native code] }") @@
  (<<"_","_","p","r","o","t","o","_","_">> :> "[object Object]")

\* table[key] || fallback on a Record<string, string> object literal
LookupOr(table, key, fallback) ==
  IF key \in DOMAIN table THEN table[key]
  ELSE IF key \in DOMAIN ObjectPrototype THEN ObjectPrototype[key]
  ELSE fallback

\* fileName.split('.').pop()?.toLowerCase()
ExtOf(fileName) ==
  LET parts == Split(fileName, ".") IN ToLowerCase(parts[Len(parts)])

ContentTypeOf(type, fileName) ==
  IF type = "images" THEN LookupOr(imageTypes, ExtOf(fileName), "image/jpeg")
  ELSE LookupOr(videoTypes, ExtOf(fileName), "video/mp4")

MediaRoute(fs, fileName, type, io) ==
  IF Falsy(fileName) \/ FalsyType(type)
    THEN JsonError(400, "Missing file or type parameter")
  ELSE LET folderPath == folderPathOf(type)
           filePath == join(folderPath, fileName)
       IN IF ~existsSync(fs, filePath) \/ ~StartsWith(filePath, folderPath)
            THEN JsonError(404, "File not found")
          ELSE LET fileBuffer == readFile(fs, filePath, io)
               IN IF ~fileBuffer.ok THEN JsonError(500, "Failed to serve file")
                  ELSE [status |-> 200, kind |-> "bytes",
                        body |-> fileBuffer.data,
                        contentType |-> ContentTypeOf(type, fileName),
                        contentLength |-> NumToString(Len(fileBuffer.data))]

\* --------------------------------------------------- POST /api/upload
\* UploadRoute with the promise of writeFile not awaited: a failed write
\* goes unnoticed
UploadRouteUnchecked(fs, form, io) ==
  IF ~form.parsed
    THEN [fs |-> fs, resp |-> JsonError(500, "Failed to upload file")]
  ELSE IF form.file.kind = "none" \/ (form.file.kind = "text" /\ form.file.text = <<>>)
    THEN [fs |-> fs, resp |-> JsonError(400, "No file provided")]
  ELSE IF form.file.kind = "text"
    THEN [fs |-> fs, resp |-> JsonError(500, "Failed to upload file")]
  ELSE LET folderPath == folderPathOf(form.type)
           made == IF existsSync(fs, folderPath) THEN [ok |-> TRUE, fs |-> fs]
                   ELSE mkdirSync(fs, folderPath)
           filePath == join(folderPath, form.file.name)
           written == writeFile(made.fs, filePath, form.file.bytes, io)
       IN IF ~made.ok
            THEN [fs |-> fs, resp |-> JsonError(500, "Failed to upload file")]
          ELSE [fs |-> written.fs,
                resp |-> [status |-> 200, kind |-> "json", success |-> TRUE,
                          message |-> "File uploaded successfully",
                          fileName |-> form.file.name]]

\* A form is [parsed, file, type]: parsed is FALSE when request.formData()
\* throws; file is [kind |-> "none"], [kind |-> "text", text] for a plain
\* string field or [kind |-> "file", name, bytes]; type is a string or null.
UploadRoute(fs, form, io) ==
  IF ~form.parsed
    THEN [fs |-> fs, resp |-> JsonError(500, "Failed to upload file")]
  ELSE IF form.file.kind = "none" \/ (form.file.kind = "text" /\ form.file.text = <<>>)
    THEN [fs |-> fs, resp |-> JsonError(400, "No file provided")]
  ELSE IF form.file.kind = "text"
    THEN [fs |-> fs, resp |-> JsonError(500, "Failed to upload file")]
  ELSE LET folderPath == folderPathOf(form.type)
           made == IF existsSync(fs, folderPath) THEN [ok |-> TRUE, fs |-> fs]
                   ELSE mkdirSync(fs, folderPath)
           filePath == join(folderPath, form.file.name)
           written == writeFile(made.fs, filePath, form.file.bytes, io)
       IN IF ~made.ok
            THEN [fs |-> fs, resp |-> JsonError(500, "Failed to upload file")]
          ELSE IF ~written.ok
            THEN [fs |-> made.fs, resp |-> JsonError(500, "Failed to upload file")]
          ELSE [fs |-> written.fs,
                resp |-> [status |-> 200, kind |-> "json", success |-> TRUE,
                          message |-> "File uploaded successfully",
                          fileName |-> form.file.name]]

\* ------------------------------------------------------------ the inputs
\* file names, written out as characters
Name_a_png == <<"a",".","p","n","g">>
Name_B_JPG == <<"B",".","J","P","G">>
Name_v_mp4 == <<"v",".","m","p","4">>
Name_n_bmp == <<"n",".","b","m","p">>
Name_png == <<"p","n","g">>
Name_c_constructor == <<"c",".","c","o","n","s","t","r","u","c","t","o","r">>
Name_up_x_png == <<".",".","/","x",".","p","n","g">>
Name_sibling_s_png == <<".",".","/","i","m","a","g","e","s","2","/","s",".","p","n","g">>
Name_videos_v_mp4 == <<".",".","/","v","i","d","e","o","s","/","v",".","m","p","4">>
Name_dot == <<".">>

\* the 'type' values a request can carry: absent, empty, and three strings
TypeParams == {NullType, "", "images", "videos", "docs"}

\* the 'file' values of GET /api/media
FileParams ==
  {NullStr, <<>>, Name_a_png, Name_B_JPG, Name_v_mp4, Name_n_bmp, Name_png,
   Name_c_constructor, Name_up_x_png, Name_sibling_s_png, Name_videos_v_mp4,
   Name_dot}

\* the bodies POST /api/upload is sent: a request that is not multipart, a
\* form without a file, a form whose 'file' is a plain string (empty or not),
\* and files under several names, types and contents
FileForm(n, t, b) ==
  [parsed |-> TRUE, file |-> [kind |-> "file", name |-> n, bytes |-> b], type |-> t]

UploadForms ==
  { [parsed |-> FALSE, file |-> [kind |-> "none"], type |-> NullType],
    [parsed |-> TRUE, file |-> [kind |-> "none"], type |-> "images"],
    [parsed |-> TRUE, file |-> [kind |-> "text", text |-> <<>>], type |-> "images"],
    [parsed |-> TRUE, file |-> [kind |-> "text", text |-> Name_a_png], type |-> "images"],
    FileForm(Name_a_png, "images", <<7>>),
    FileForm(Name_a_png, "images", <<7, 9>>),
    FileForm(Name_a_png, "videos", <<7>>),
    FileForm(Name_n_bmp, "images", <<7>>),
    FileForm(Name_up_x_png, "images", <<7, 9>>),
    FileForm(Name_c_constructor, "images", <<7>>),
    FileForm(Name_v_mp4, NullType, <<7, 9>>),
    FileForm(Name_v_mp4, "videos", <<>>) }

\* a deployment where nothing was uploaded yet and public/ has no folders
FsEmpty ==
  [dirs |-> AncestorsAndSelf(publicPath), files |-> <<>>]

\* a deployment with some media, and next to public/images a folder
\* public/images2 that is not meant to be served
FsPopulated ==
  [dirs |-> AncestorsAndSelf(folderPathOf("images")) \cup {folderPathOf("videos")}
            \cup {join(publicPath, <<"i","m","a","g","e","s","2">>)},
   files |-> (join(folderPathOf("images"), Name_a_png) :> <<1>>) @@
             (join(folderPathOf("images"), Name_B_JPG) :> <<2, 2>>) @@
             (join(folderPathOf("images"), Name_png) :> <<5>>) @@
             (join(folderPathOf("images"), Name_c_constructor) :> <<6>>) @@
             (join(folderPathOf("videos"), Name_v_mp4) :> <<3, 3, 3>>) @@
             (join(folderPathOf("images"), Name_sibling_s_png) :> <<4>>)]

\* ------------------------------------------------------------- the state
VARIABLES
  fs,          \* the server's file system
  last,        \* the request being answered and its response
  uploaded,    \* the <<name, type>> of every upload answered with success
  lastUpload,  \* the form of the latest upload answered with success
  nUploads     \* how many upload requests were handled

\* the Home page (src/unnamed/part_000)
VARIABLES
  activeTab,         \* useState: the tab shown
  files,             \* useState: the names listed
  loading,           \* useState: a listing is being fetched
  uploading,         \* useState: an upload is being sent
  uploadMessage,     \* useState: the text next to the upload button
  selectedMedia,     \* useState: what the modal shows, or null
  tabEffect,         \* the effect on [activeTab] has yet to run
  listReqs,          \* the /api/files requests in flight, oldest first
  uploadReq,         \* the /api/upload request in flight, if any
  clickTimers,       \* the pending 100 ms timers of clicks on grid videos
  playing,           \* the video elements that are playing
  currentlyPlaying,  \* currentlyPlayingVideoRef.current
  event,             \* the event handled last
  view               \* what the last render put on the page

serverVars == <<fs, last, uploaded, lastUpload, nUploads>>

homeVars == <<activeTab, files, loading, uploading, uploadMessage, selectedMedia,
              tabEffect, listReqs, uploadReq, clickTimers, playing,
              currentlyPlaying, event, view>>

\* one MediaDisplay
VARIABLES
  mounted,        \* whether the component is on the page
  mdFileName,     \* props
  mdType,
  mdFullSize,
  watermarkText,  \* NEXT_PUBLIC_WATERMARK_TEXT || ''
  mdLoading,      \* useState: loading
  mdError,        \* useState: error
  blobUrl,        \* useState: blobUrl
  blobUrlRef,     \* useRef: blobUrlRef
  imageRef,       \* useRef: imageRef
  decoded,        \* the Image objects that have loaded
  canvas,         \* the image canvas and what it shows
  videoCanvas,    \* the overlay canvas of the video
  loads,          \* the calls of loadMedia that have not finished
  timers,         \* pending setTimeout callbacks
  liveUrls,       \* object URLs created and not revoked
  nLoads,         \* calls of loadMedia so far
  visibleDraws,   \* the images drawImageToCanvas was called for, loaded, on a mounted canvas
  videoEl,        \* the <video> element on the page
  observed,       \* the element the ResizeObserver of the load effect observes
  overlayState    \* the overlay against the size of the video element

mediaVars == <<mounted, mdFileName, mdType, mdFullSize, watermarkText, mdLoading,
               mdError, blobUrl, blobUrlRef, imageRef, decoded, canvas, videoCanvas,
               loads, timers, liveUrls, nLoads, visibleDraws, videoEl, observed,
               overlayState>>

vars == <<serverVars, homeVars, mediaVars>>

NoRequest == [req |-> [route |-> "none"], resp |-> [status |-> 0, kind |-> "none"]]
NoUpload == [parsed |-> FALSE]

InitServer ==
  /\ fs \in {FsEmpty, FsPopulated}
  /\ last = NoRequest
  /\ uploaded = {}
  /\ lastUpload = NoUpload
  /\ nUploads = 0

\* GET /api/files?type=...
ListFiles(type, io) ==
  /\ last = NoRequest
  /\ last' = [req |-> [route |-> "files", type |-> type, io |-> io],
              resp |-> FilesRoute(fs, type, io)]
  /\ UNCHANGED <<fs, uploaded, lastUpload, nUploads, homeVars, mediaVars>>

\* GET /api/media?file=...&type=...
GetMedia(fileName, type, io) ==
  /\ last = NoRequest
  /\ last' = [req |-> [route |-> "media", file |-> fileName, type |-> type, io |-> io],
              resp |-> MediaRoute(fs, fileName, type, io)]
  /\ UNCHANGED <<fs, uploaded, lastUpload, nUploads, homeVars, mediaVars>>

\* POST /api/upload
Upload(form, io) ==
  /\ last = NoRequest
  /\ nUploads < MaxUploads
  /\ LET r == UploadRoute(fs, form, io)
     IN /\ fs' = r.fs
        /\ last' = [req |-> [route |-> "upload", form |-> form, io |-> io], resp |-> r.resp]
        /\ uploaded' = IF r.resp.status = 200
                         THEN uploaded \cup {<<form.file.name, form.type>>}
                         ELSE uploaded
        /\ lastUpload' = IF r.resp.status = 200 THEN form ELSE lastUpload
  /\ nUploads' = nUploads + 1
  /\ UNCHANGED <<homeVars, mediaVars>>

\* the response has gone out; the server waits for the next request
Respond ==
  /\ last # NoRequest
  /\ last' = NoRequest
  /\ UNCHANGED <<fs, uploaded, lastUpload, nUploads, homeVars, mediaVars>>

\* ============================================================ the Home page
MaxListReqs == 2
MaxFormUploads == 1
MaxClickTimers == 1

NoMedia == [fileName |-> NullStr, type |-> NullType]
NoModal == [fileName |-> NullStr, type |-> NullType, fullSize |-> FALSE]
NoResp == [status |-> 0, kind |-> "pending"]
Rejected == [status |-> 0, kind |-> "rejected"]
NoReq == [tab |-> NullType]
NoFile == [name |-> NullStr]
NoVideo == [place |-> "none"]
NoEvent == [kind |-> "none"]

\* the File objects the file input can hand over: name, MIME type, content
Name_d_gif == <<"d",".","g","i","f">>
Mime_image_gif == <<"i","m","a","g","e","/","g","i","f">>
Mime_video_mp4 == <<"v","i","d","e","o","/","m","p","4">>

ChosenFiles ==
  { NoFile,
    [name |-> Name_d_gif, type |-> Mime_image_gif, bytes |-> <<7>>],
    [name |-> Name_v_mp4, type |-> Mime_video_mp4, bytes |-> <<7, 9>>] }

\* the grid: 'Loading...', 'No ... found', or one MediaDisplay per file
RenderGrid(tab, fileList, isLoading) ==
  IF isLoading THEN [state |-> "loading", cells |-> <<>>]
  ELSE IF Len(fileList) = 0 THEN [state |-> "empty", cells |-> <<>>]
  ELSE [state |-> "grid",
        cells |-> [i \in 1..Len(fileList) |-> [fileName |-> fileList[i], type |-> tab]]]

\* RenderModal with every selection shown as an image
RenderModalAsImage(selected) ==
  IF selected = NoMedia THEN NoModal
  ELSE [fileName |-> selected.fileName, type |-> "images", fullSize |-> TRUE]

\* {selectedMedia && (...)}: the modal and the MediaDisplay in it
RenderModal(selected) ==
  IF selected = NoMedia THEN NoModal
  ELSE [fileName |-> selected.fileName, type |-> selected.type, fullSize |-> TRUE]

\* what Home returns for a state
Render(tab, fileList, isLoading, isUploading, message, selected) ==
  [grid |-> RenderGrid(tab, fileList, isLoading),
   modal |-> RenderModal(selected),
   inputDisabled |-> isUploading,
   message |-> message]

\* MediaDisplay renders a <video> only once its fetch of /api/media succeeded;
\* a failed fetch leaves the error box
CanShowVideo(fileName, type) ==
  type = "videos" /\ MediaRoute(fs, fileName, type, FALSE).status = 200

\* the <video> elements a page can hold
VideoElements(v) ==
  { [place |-> "grid", fileName |-> v.grid.cells[i].fileName] :
      i \in { j \in 1..Len(v.grid.cells) :
                CanShowVideo(v.grid.cells[j].fileName, v.grid.cells[j].type) } }
  \cup (IF v.modal # NoModal /\ CanShowVideo(v.modal.fileName, v.modal.type)
          THEN {[place |-> "modal", fileName |-> v.modal.fileName]} ELSE {})

\* React renders and commits the new state; a <video> taken off the page stops
Rerender(nowPlaying) ==
  /\ view' = Render(activeTab', files', loading', uploading', uploadMessage',
                    selectedMedia')
  /\ playing' = nowPlaying \cap VideoElements(view')
  /\ UNCHANGED mediaVars

\* the page is opened on a deployment that already has media
HomeStart ==
  /\ activeTab = "images"
  /\ files = <<>>
  /\ loading = FALSE
  /\ uploading = FALSE
  /\ uploadMessage = ""
  /\ selectedMedia = NoMedia
  /\ tabEffect = TRUE
  /\ listReqs = EmptyBag
  /\ uploadReq = NoReq
  /\ clickTimers = {}
  /\ playing = {}
  /\ currentlyPlaying = NoVideo
  /\ event = NoEvent
  /\ view = Render("images", <<>>, FALSE, FALSE, "", NoMedia)

\* a tab button: setActiveTab(t)
ClickTab(t) ==
  /\ ~tabEffect
  /\ BagCardinality(listReqs) < MaxListReqs
  /\ activeTab' = t
  /\ tabEffect' = (t # activeTab)
  /\ event' = NoEvent
  /\ UNCHANGED <<files, loading, uploading, uploadMessage, selectedMedia, listReqs,
                 uploadReq, clickTimers, currentlyPlaying, serverVars>>
  /\ Rerender(playing)

\* useEffect(() => fetchFiles(activeTab), [activeTab]), up to the await
TabEffect ==
  /\ tabEffect
  /\ tabEffect' = FALSE
  /\ loading' = TRUE
  /\ listReqs' = listReqs (+) SetToBag({[type |-> activeTab, resp |-> NoResp]})
  /\ event' = NoEvent
  /\ UNCHANGED <<activeTab, files, uploading, uploadMessage, selectedMedia, uploadReq,
                 clickTimers, currentlyPlaying, serverVars>>
  /\ Rerender(playing)

\* the server answers a list request
ServeList(req, io) ==
  /\ BagIn(req, listReqs)
  /\ req.resp = NoResp
  /\ listReqs' = (listReqs (-) SetToBag({req}))
                   (+) SetToBag({[req EXCEPT !.resp = FilesRoute(fs, req.type, io)]})
  /\ UNCHANGED <<activeTab, files, loading, uploading, uploadMessage, selectedMedia,
                 tabEffect, uploadReq, clickTimers, playing, currentlyPlaying, view,
                 serverVars>>
  /\ event' = NoEvent
  /\ UNCHANGED mediaVars

\* a list request fails on the network: fetch rejects
FailList(req) ==
  /\ BagIn(req, listReqs)
  /\ req.resp = NoResp
  /\ listReqs' = (listReqs (-) SetToBag({req}))
                   (+) SetToBag({[req EXCEPT !.resp = Rejected]})
  /\ UNCHANGED <<activeTab, files, loading, uploading, uploadMessage, selectedMedia,
                 tabEffect, uploadReq, clickTimers, playing, currentlyPlaying, view,
                 serverVars>>
  /\ event' = NoEvent
  /\ UNCHANGED mediaVars

\* fetchFiles from the await on: setFiles(data.files || []), or [] in the
\* catch; setLoading(false) in the finally
ListDoneState(req) ==
  /\ ~tabEffect
  /\ BagIn(req, listReqs)
  /\ req.resp # NoResp
  /\ files' = IF req.resp.kind = "json" /\ "files" \in DOMAIN req.resp
                THEN req.resp.files
                ELSE <<>>
  /\ loading' = FALSE
  /\ listReqs' = listReqs (-) SetToBag({req})
  /\ event' = NoEvent
  /\ UNCHANGED <<activeTab, uploading, uploadMessage, selectedMedia, tabEffect,
                 uploadReq, clickTimers, currentlyPlaying, serverVars>>

\* ListDone with a catch that leaves the list as it is
ListDoneKeepsList(req) ==
  /\ ~tabEffect
  /\ BagIn(req, listReqs)
  /\ req.resp # NoResp
  /\ files' = IF req.resp.kind = "json" /\ "files" \in DOMAIN req.resp
                THEN req.resp.files
                ELSE files
  /\ loading' = FALSE
  /\ listReqs' = listReqs (-) SetToBag({req})
  /\ event' = NoEvent
  /\ UNCHANGED <<activeTab, uploading, uploadMessage, selectedMedia, tabEffect,
                 uploadReq, clickTimers, currentlyPlaying, serverVars>>
  /\ Rerender(playing)

\* the continuation of fetchFiles and the render of the state it set
ListDone(req) ==
  /\ ListDoneState(req)
  /\ Rerender(playing)

\* handleFileUpload without the checks of the file type
ChooseFileUnvalidated(file) ==
  /\ ~tabEffect
  /\ ~view.inputDisabled
  /\ event' = NoEvent
  /\ IF file = NoFile
       THEN UNCHANGED <<uploading, uploadMessage, uploadReq>>
     ELSE /\ nUploads < MaxFormUploads
          /\ uploading' = TRUE
          /\ uploadMessage' = ""
          /\ uploadReq' = [tab |-> activeTab,
                           form |-> FileForm(file.name, activeTab, file.bytes),
                           resp |-> NoResp]
  /\ UNCHANGED <<activeTab, files, loading, selectedMedia, tabEffect, listReqs,
                 clickTimers, currentlyPlaying, serverVars>>
  /\ Rerender(playing)

\* handleFileUpload behind a file input that is never disabled
ChooseFileWhileDisabled(file) ==
  /\ ~tabEffect
  /\ event' = NoEvent
  /\ IF file = NoFile
       THEN UNCHANGED <<uploading, uploadMessage, uploadReq>>
     ELSE LET isImage == StartsWith(file.type, <<"i","m","a","g","e","/">>)
              isVideo == StartsWith(file.type, <<"v","i","d","e","o","/">>)
          IN IF activeTab = "images" /\ ~isImage
               THEN /\ uploadMessage' = "Please select an image file"
                    /\ UNCHANGED <<uploading, uploadReq>>
             ELSE IF activeTab = "videos" /\ ~isVideo
               THEN /\ uploadMessage' = "Please select a video file"
                    /\ UNCHANGED <<uploading, uploadReq>>
             ELSE /\ nUploads < MaxFormUploads
                  /\ uploading' = TRUE
                  /\ uploadMessage' = ""
                  /\ uploadReq' = [tab |-> activeTab,
                                   form |-> FileForm(file.name, activeTab, file.bytes),
                                   resp |-> NoResp]
  /\ UNCHANGED <<activeTab, files, loading, selectedMedia, tabEffect, listReqs,
                 clickTimers, currentlyPlaying, serverVars>>
  /\ Rerender(playing)

\* handleFileUpload up to the await: the change event of the file input
ChooseFile(file) ==
  /\ ~tabEffect
  /\ ~view.inputDisabled
  /\ event' = NoEvent
  /\ IF file = NoFile
       THEN UNCHANGED <<uploading, uploadMessage, uploadReq>>
     ELSE LET isImage == StartsWith(file.type, <<"i","m","a","g","e","/">>)
              isVideo == StartsWith(file.type, <<"v","i","d","e","o","/">>)
          IN IF activeTab = "images" /\ ~isImage
               THEN /\ uploadMessage' = "Please select an image file"
                    /\ UNCHANGED <<uploading, uploadReq>>
             ELSE IF activeTab = "videos" /\ ~isVideo
               THEN /\ uploadMessage' = "Please select a video file"
                    /\ UNCHANGED <<uploading, uploadReq>>
             ELSE /\ nUploads < MaxFormUploads
                  /\ uploading' = TRUE
                  /\ uploadMessage' = ""
                  /\ uploadReq' = [tab |-> activeTab,
                                   form |-> FileForm(file.name, activeTab, file.bytes),
                                   resp |-> NoResp]
  /\ UNCHANGED <<activeTab, files, loading, selectedMedia, tabEffect, listReqs,
                 clickTimers, currentlyPlaying, serverVars>>
  /\ Rerender(playing)

\* the server answers the upload request
ServeUpload(io) ==
  /\ uploadReq # NoReq
  /\ uploadReq.resp = NoResp
  /\ LET r == UploadRoute(fs, uploadReq.form, io)
     IN /\ fs' = r.fs
        /\ uploadReq' = [uploadReq EXCEPT !.resp = r.resp]
        /\ uploaded' = IF r.resp.status = 200
                         THEN uploaded \cup {<<uploadReq.form.file.name, uploadReq.form.type>>}
                         ELSE uploaded
        /\ lastUpload' = IF r.resp.status = 200 THEN uploadReq.form ELSE lastUpload
  /\ nUploads' = nUploads + 1
  /\ UNCHANGED <<last, activeTab, files, loading, uploading, uploadMessage,
                 selectedMedia, tabEffect, listReqs, clickTimers, playing,
                 currentlyPlaying, view>>
  /\ event' = NoEvent
  /\ UNCHANGED mediaVars

\* the upload request or its response is lost: fetch rejects
FailUpload ==
  /\ uploadReq # NoReq
  /\ uploadReq.resp # Rejected
  /\ uploadReq' = [uploadReq EXCEPT !.resp = Rejected]
  /\ UNCHANGED <<activeTab, files, loading, uploading, uploadMessage, selectedMedia,
                 tabEffect, listReqs, clickTimers, playing, currentlyPlaying, view,
                 serverVars>>
  /\ event' = NoEvent
  /\ UNCHANGED mediaVars

\* handleFileUpload without the fetchFiles(activeTab) of the OK branch
UploadDoneStateNoRefresh ==
  /\ ~tabEffect
  /\ uploadReq # NoReq
  /\ uploadReq.resp # NoResp
  /\ IF uploadReq.resp.kind = "rejected"
       THEN /\ uploadMessage' = "Upload failed. Please try again."
            /\ UNCHANGED <<loading, listReqs>>
     ELSE IF uploadReq.resp.status = 200
       THEN /\ uploadMessage' = "File uploaded successfully!"
            /\ UNCHANGED <<loading, listReqs>>
     ELSE /\ uploadMessage' = IF uploadReq.resp.error # "" THEN uploadReq.resp.error
                              ELSE "Upload failed"
          /\ UNCHANGED <<loading, listReqs>>
  /\ uploading' = FALSE
  /\ uploadReq' = NoReq
  /\ event' = NoEvent
  /\ UNCHANGED <<activeTab, files, selectedMedia, tabEffect, clickTimers,
                 currentlyPlaying, serverVars>>

\* handleFileUpload with a catch that sets no message
UploadDoneStateSilentCatch ==
  /\ ~tabEffect
  /\ uploadReq # NoReq
  /\ uploadReq.resp # NoResp
  /\ IF uploadReq.resp.kind = "rejected"
       THEN UNCHANGED <<uploadMessage, loading, listReqs>>
     ELSE IF uploadReq.resp.status = 200
       THEN /\ BagCardinality(listReqs) < MaxListReqs
            /\ uploadMessage' = "File uploaded successfully!"
            /\ loading' = TRUE
            /\ listReqs' = listReqs (+) SetToBag({[type |-> uploadReq.tab, resp |-> NoResp]})
     ELSE /\ uploadMessage' = IF uploadReq.resp.error # "" THEN uploadReq.resp.error
                              ELSE "Upload failed"
          /\ UNCHANGED <<loading, listReqs>>
  /\ uploading' = FALSE
  /\ uploadReq' = NoReq
  /\ event' = NoEvent
  /\ UNCHANGED <<activeTab, files, selectedMedia, tabEffect, clickTimers,
                 currentlyPlaying, serverVars>>

\* handleFileUpload from the await on
UploadDoneState ==
  /\ ~tabEffect
  /\ uploadReq # NoReq
  /\ uploadReq.resp # NoResp
  /\ IF uploadReq.resp.kind = "rejected"
       THEN /\ uploadMessage' = "Upload failed. Please try again."
            /\ UNCHANGED <<loading, listReqs>>
     ELSE IF uploadReq.resp.status = 200
       THEN /\ BagCardinality(listReqs) < MaxListReqs
            /\ uploadMessage' = "File uploaded successfully!"
            /\ loading' = TRUE
            /\ listReqs' = listReqs (+) SetToBag({[type |-> uploadReq.tab, resp |-> NoResp]})
     ELSE /\ uploadMessage' = IF uploadReq.resp.error # "" THEN uploadReq.resp.error
                              ELSE "Upload failed"
          /\ UNCHANGED <<loading, listReqs>>
  /\ uploading' = FALSE
  /\ uploadReq' = NoReq
  /\ event' = NoEvent
  /\ UNCHANGED <<activeTab, files, selectedMedia, tabEffect, clickTimers,
                 currentlyPlaying, serverVars>>

\* the continuation of handleFileUpload and the render of the state it set
UploadDone ==
  /\ UploadDoneState
  /\ Rerender(playing)

\* the onClick of a grid cell: opens the modal on the images tab only
CellOnClick(cell) ==
  IF cell.type = "images"
    THEN selectedMedia' = [fileName |-> cell.fileName, type |-> cell.type]
    ELSE UNCHANGED selectedMedia

\* a click on a grid cell outside its video; while the modal is rendered its
\* backdrop (fixed inset-0 z-50) covers the grid and takes the click instead
CellClick(i) ==
  /\ ~tabEffect
  /\ view.modal = NoModal
  /\ view.grid.state = "grid"
  /\ i \in 1..Len(view.grid.cells)
  /\ CellOnClick(view.grid.cells[i])
  /\ event' = [kind |-> "cell", cell |-> view.grid.cells[i]]
  /\ UNCHANGED <<activeTab, files, loading, uploading, uploadMessage, tabEffect,
                 listReqs, uploadReq, clickTimers, currentlyPlaying, serverVars>>
  /\ Rerender(playing)

\* a click on the video of a grid cell: MediaDisplay's onClick starts the
\* 100 ms timer unless the click is in the controls area, then the click
\* bubbles to the cell
VideoContainerClick(i, isInControlsArea) ==
  /\ ~tabEffect
  /\ view.modal = NoModal
  /\ view.grid.state = "grid"
  /\ i \in 1..Len(view.grid.cells)
  /\ CanShowVideo(view.grid.cells[i].fileName, view.grid.cells[i].type)
  /\ LET cell == view.grid.cells[i]
         video == [place |-> "grid", fileName |-> cell.fileName]
     IN /\ IF isInControlsArea
             THEN UNCHANGED clickTimers
             ELSE /\ Cardinality(clickTimers) < MaxClickTimers
                  /\ clickTimers' = clickTimers \cup
                       {[fileName |-> cell.fileName, type |-> cell.type,
                         wasPlaying |-> video \in playing]}
        /\ CellOnClick(cell)
        /\ event' = [kind |-> "video", cell |-> cell]
  /\ UNCHANGED <<activeTab, files, loading, uploading, uploadMessage, tabEffect,
                 listReqs, uploadReq, currentlyPlaying, serverVars>>
  /\ Rerender(playing)

\* the 100 ms timer: onVideoClick() if the play state did not change
VideoClickTimer(t) ==
  /\ ~tabEffect
  /\ t \in clickTimers
  /\ clickTimers' = clickTimers \ {t}
  /\ LET isPlaying == [place |-> "grid", fileName |-> t.fileName] \in playing
     IN IF t.wasPlaying = isPlaying
          THEN selectedMedia' = [fileName |-> t.fileName, type |-> t.type]
          ELSE UNCHANGED selectedMedia
  /\ event' = NoEvent
  /\ UNCHANGED <<activeTab, files, loading, uploading, uploadMessage, tabEffect,
                 listReqs, uploadReq, currentlyPlaying, serverVars>>
  /\ Rerender(playing)

\* handleVideoPlay that records the new video and pauses none
VideoPlayNoPause(video) ==
  /\ ~tabEffect
  /\ video \in VideoElements(view)
  /\ video \notin playing
  /\ currentlyPlaying' = video
  /\ event' = NoEvent
  /\ UNCHANGED <<activeTab, files, loading, uploading, uploadMessage, selectedMedia,
                 tabEffect, listReqs, uploadReq, clickTimers, serverVars>>
  /\ Rerender(playing \cup {video})

\* a video starts: onPlay calls handleVideoPlay, which pauses the one recorded
VideoPlay(video) ==
  /\ ~tabEffect
  /\ video \in VideoElements(view)
  /\ video \notin playing
  /\ currentlyPlaying' = video
  /\ event' = NoEvent
  /\ UNCHANGED <<activeTab, files, loading, uploading, uploadMessage, selectedMedia,
                 tabEffect, listReqs, uploadReq, clickTimers, serverVars>>
  /\ Rerender(IF currentlyPlaying # NoVideo /\ currentlyPlaying # video
                THEN (playing \ {currentlyPlaying}) \cup {video}
                ELSE playing \cup {video})

\* a video is paused by its controls or ends
VideoPause(video) ==
  /\ ~tabEffect
  /\ video \in playing
  /\ event' = NoEvent
  /\ UNCHANGED <<activeTab, files, loading, uploading, uploadMessage, selectedMedia,
                 tabEffect, listReqs, uploadReq, clickTimers, currentlyPlaying,
                 serverVars>>
  /\ Rerender(playing \ {video})

\* handleKeyDown of the Escape effect
PressEscape ==
  /\ ~tabEffect
  /\ selectedMedia' = IF selectedMedia # NoMedia THEN NoMedia ELSE selectedMedia
  /\ event' = [kind |-> "escape", open |-> selectedMedia # NoMedia]
  /\ UNCHANGED <<activeTab, files, loading, uploading, uploadMessage, tabEffect,
                 listReqs, uploadReq, clickTimers, currentlyPlaying, serverVars>>
  /\ Rerender(playing)

\* a click on the modal's backdrop
ClickBackdrop ==
  /\ ~tabEffect
  /\ view.modal # NoModal
  /\ selectedMedia' = NoMedia
  /\ event' = [kind |-> "backdrop"]
  /\ UNCHANGED <<activeTab, files, loading, uploading, uploadMessage, tabEffect,
                 listReqs, uploadReq, clickTimers, currentlyPlaying, serverVars>>
  /\ Rerender(playing)

\* a click on the modal's close button; the content div stops the bubbling
ClickClose ==
  /\ ~tabEffect
  /\ view.modal # NoModal
  /\ selectedMedia' = NoMedia
  /\ event' = [kind |-> "close"]
  /\ UNCHANGED <<activeTab, files, loading, uploading, uploadMessage, tabEffect,
                 listReqs, uploadReq, clickTimers, currentlyPlaying, serverVars>>
  /\ Rerender(playing)

\* ClickModalContent without e.stopPropagation(): the click reaches the
\* backdrop's onClick
ClickModalContentBubbling(part) ==
  /\ ~tabEffect
  /\ view.modal # NoModal
  /\ selectedMedia' = NoMedia
  /\ event' = [kind |-> "content", part |-> part]
  /\ UNCHANGED <<activeTab, files, loading, uploading, uploadMessage, tabEffect,
                 listReqs, uploadReq, clickTimers, currentlyPlaying, serverVars>>
  /\ Rerender(playing)

\* a click on the modal's header or media container: e.stopPropagation()
ClickModalContent(part) ==
  /\ ~tabEffect
  /\ view.modal # NoModal
  /\ event' = [kind |-> "content", part |-> part]
  /\ UNCHANGED <<activeTab, files, loading, uploading, uploadMessage, selectedMedia,
                 tabEffect, listReqs, uploadReq, clickTimers, currentlyPlaying,
                 serverVars>>
  /\ Rerender(playing)

\* browsing: tabs, listings (a listing fails by a 500 answer), cells, videos
\* and the modal
NextHome ==
  \/ \E t \in {"images", "videos"} : ClickTab(t)
  \/ TabEffect
  \/ \E req \in BagToSet(listReqs), io \in BOOLEAN : ServeList(req, io)
  \/ \E req \in BagToSet(listReqs) : ListDone(req)
  \/ \E i \in 1..Len(view.grid.cells) : CellClick(i)
  \/ \E i \in 1..Len(view.grid.cells), c \in BOOLEAN : VideoContainerClick(i, c)
  \/ \E t \in clickTimers : VideoClickTimer(t)
  \/ \E v \in VideoElements(view) : VideoPlay(v)
  \/ \E v \in playing : VideoPause(v)
  \/ PressEscape
  \/ ClickBackdrop
  \/ ClickClose
  \/ \E part \in {"header", "media"} : ClickModalContent(part)

\* ===================================================== the MediaDisplay
MaxLoads == 2
MaxTimers == 2

NoImage == [id |-> 0]
NoUrl == 0
NoError == ""
NoCanvas == [mounted |-> FALSE, layers |-> <<>>]
BlankCanvas == [mounted |-> TRUE, layers |-> <<>>]

ImageLayer(img) == [kind |-> "image", of |-> img.fileName]
WatermarkLayer(text) == [kind |-> "watermark", text |-> text]

\* the values NEXT_PUBLIC_WATERMARK_TEXT || '' takes: unset, or a text
WatermarkTexts == {"", "TMBC"}

\* drawImageToCanvas with the watermark block left out
drawImageToCanvasBare(cv, img, isDecoded, text, ctx) ==
  IF ~cv.mounted \/ img = NoImage THEN cv
  ELSE IF ~ctx THEN BlankCanvas
  ELSE [mounted |-> TRUE,
        layers |-> IF isDecoded THEN <<ImageLayer(img)>> ELSE <<>>]

\* drawImageToCanvas: what the canvas shows after the call. Sizing the canvas
\* clears it; drawImage of an image that is not loaded yet draws nothing;
\* ctx is whether getContext('2d') gave a context
drawImageToCanvas(cv, img, isDecoded, text, ctx) ==
  IF ~cv.mounted \/ img = NoImage THEN cv
  ELSE IF ~ctx THEN BlankCanvas
  ELSE [mounted |-> TRUE,
        layers |-> (IF isDecoded THEN <<ImageLayer(img)>> ELSE <<>>)
                   \o (IF text # "" THEN <<WatermarkLayer(text)>> ELSE <<>>)]

\* drawVideoWatermark: the overlay canvas exists only with a watermark text
drawVideoWatermark(overlay, videoShown, text, hasSize, ctx) ==
  IF text = "" \/ ~videoShown THEN overlay
  ELSE IF ~hasSize THEN overlay
  ELSE IF ~ctx THEN BlankCanvas
  ELSE [mounted |-> TRUE, layers |-> <<WatermarkLayer(text)>>]

\* which branch of the render a state takes
ShowsCanvas(isLoading, err, type) == ~isLoading /\ err = NoError /\ type = "images"
ShowsVideo(isLoading, err, type) == ~isLoading /\ err = NoError /\ type = "videos"

\* what the component returns: the 'Loading...' box, the error text, the
\* canvas or the video container
MediaRender(isLoading, err, type) ==
  IF isLoading THEN "loading"
  ELSE IF err # NoError THEN "error"
  ELSE IF type = "images" THEN "canvas"
  ELSE "video"

\* a canvas that stays in the tree keeps its pixels, a new one is blank
Mounted(cv, shown) == IF ~shown THEN NoCanvas ELSE IF cv.mounted THEN cv ELSE BlankCanvas

\* the timers the two redraw effects start when one of their dependencies
\* (fullSize, type, loading) changed in the render committed
EffectTimers(changed, isLoading, err, type, img) ==
  (IF changed /\ type = "images" /\ img # NoImage /\ ~isLoading
     THEN SetToBag({"redraw"}) ELSE EmptyBag)
  (+) (IF changed /\ ShowsVideo(isLoading, err, type) /\ watermarkText # ""
         THEN SetToBag({"videoRedraw"}) ELSE EmptyBag)

\* <video> elements: none, or one of two, which is enough to tell the element
\* on the page from the one an observer still holds
NoElement == 0
FreshElement(held) == IF held = 1 THEN 2 ELSE 1

\* what a call of drawVideoWatermark() leaves of the overlay state: with the
\* canvas, the text and the video there it takes the size of the video (a
\* rect of size zero or a missing 2d context leave nothing to draw)
AfterWatermarkCall(state) ==
  IF videoCanvas.mounted /\ watermarkText # "" /\ videoEl # NoElement
    THEN "fresh" ELSE state

\* the size of the video element changed
AfterSizeChange(state) == IF state = "fresh" THEN "stale" ELSE state

\* React commits the render of the new state: the canvases follow the branch
\* rendered, a <video> that stays in the tree stays the same element
Commit(cv, newTimers) ==
  /\ canvas' = Mounted(cv, ShowsCanvas(mdLoading', mdError', mdType'))
  /\ videoCanvas' = Mounted(videoCanvas, ShowsVideo(mdLoading', mdError', mdType')
                                           /\ watermarkText # "")
  /\ timers' = newTimers
  /\ BagCardinality(newTimers) <= MaxTimers
  /\ videoEl' = IF ~ShowsVideo(mdLoading', mdError', mdType') THEN NoElement
                 ELSE IF videoEl # NoElement THEN videoEl
                 ELSE FreshElement(observed')
  /\ overlayState' = IF videoEl' = NoElement \/ watermarkText = "" THEN "none"
                      ELSE IF videoEl' = videoEl THEN overlayState
                      ELSE "blank"

\* a change of state only: the effects see the new loading and error
CommitState(cv, newTimers) ==
  Commit(cv, newTimers (+) EffectTimers(mdLoading' # mdLoading, mdLoading', mdError',
                                        mdType, imageRef'))

\* a call of drawImageToCanvas is noted when the canvas is mounted and
\* imageRef holds an image that has loaded
DrawCall ==
  visibleDraws' = IF canvas.mounted /\ imageRef # NoImage /\ imageRef.id \in decoded
                    THEN visibleDraws \cup {imageRef.id}
                    ELSE visibleDraws

NewLoad(fileName, type) == [id |-> nLoads + 1, fileName |-> fileName, type |-> type,
                            stage |-> "fetch"]

\* the component is not on the page
MediaUnmounted ==
  /\ mounted = FALSE
  /\ mdFileName = NullStr
  /\ mdType = NullType
  /\ mdFullSize = FALSE
  /\ watermarkText = ""
  /\ mdLoading = TRUE
  /\ mdError = NoError
  /\ blobUrl = NoUrl
  /\ blobUrlRef = NoUrl
  /\ imageRef = NoImage
  /\ decoded = {}
  /\ canvas = NoCanvas
  /\ videoCanvas = NoCanvas
  /\ loads = {}
  /\ timers = EmptyBag
  /\ liveUrls = {}
  /\ nLoads = 0
  /\ visibleDraws = {}
  /\ videoEl = NoElement
  /\ observed = NoElement
  /\ overlayState = "none"

\* the page mounts a MediaDisplay: first render, then the load effect runs
\* loadMedia up to the fetch
MediaMounted ==
  /\ mounted = TRUE
  /\ mdFileName \in {Name_a_png, Name_n_bmp, Name_v_mp4}
  /\ mdType \in {"images", "videos"}
  /\ mdFullSize \in BOOLEAN
  /\ watermarkText \in WatermarkTexts
  /\ mdLoading = TRUE
  /\ mdError = NoError
  /\ blobUrl = NoUrl
  /\ blobUrlRef = NoUrl
  /\ imageRef = NoImage
  /\ decoded = {}
  /\ canvas = NoCanvas
  /\ videoCanvas = NoCanvas
  /\ loads = {[id |-> 1, fileName |-> mdFileName, type |-> mdType, stage |-> "fetch"]}
  /\ timers = EmptyBag
  /\ liveUrls = {}
  /\ nLoads = 1
  /\ visibleDraws = {}
  /\ videoEl = NoElement
  /\ observed = NoElement
  /\ overlayState = "none"

\* the parent renders the component with other props. The redraw effects of
\* that render still see the old loading. With a new fileName or type the
\* load effect is cleaned up (the blob URL is revoked) and loadMedia runs
\* again up to the fetch
SetProps(fileName, type, fullSize) ==
  /\ mounted
  /\ <<fileName, type, fullSize>> # <<mdFileName, mdType, mdFullSize>>
  /\ mdFileName' = fileName
  /\ mdType' = type
  /\ mdFullSize' = fullSize
  /\ IF <<fileName, type>> # <<mdFileName, mdType>>
       THEN /\ nLoads < MaxLoads
            /\ nLoads' = nLoads + 1
            /\ liveUrls' = liveUrls \ {blobUrlRef}
            /\ blobUrlRef' = NoUrl
            /\ mdLoading' = TRUE
            /\ mdError' = NoError
            /\ loads' = loads \cup {NewLoad(fileName, type)}
       ELSE UNCHANGED <<nLoads, liveUrls, blobUrlRef, mdLoading, mdError, loads>>
  /\ observed' = IF <<fileName, type>> = <<mdFileName, mdType>> THEN observed
                  ELSE IF type = "videos" /\ fullSize /\ ShowsVideo(mdLoading, mdError, type)
                    THEN (IF videoEl # NoElement THEN videoEl ELSE FreshElement(NoElement))
                  ELSE NoElement
  /\ UNCHANGED <<mounted, watermarkText, blobUrl, imageRef, decoded, serverVars,
                 homeVars, visibleDraws>>
  /\ Commit(canvas, timers (+) EffectTimers(<<fullSize, type>> # <<mdFullSize, mdType>>,
                                            mdLoading, mdError, type, imageRef))

\* loadMedia from the fetch on: an answer that is not ok, or no answer at
\* all, ends in the catch; otherwise the blob gets an object URL and the
\* image starts loading, or the video gets the URL
FetchDone(load, io, arrives) ==
  /\ load \in loads
  /\ load.stage = "fetch"
  /\ UNCHANGED <<mounted, mdFileName, mdType, mdFullSize, watermarkText, decoded,
                 nLoads, serverVars, homeVars, visibleDraws, observed>>
  /\ LET response == MediaRoute(fs, load.fileName, load.type, io)
     IN IF ~arrives \/ response.status # 200
          THEN /\ mdError' = "Failed to load media"
               /\ mdLoading' = FALSE
               /\ loads' = loads \ {load}
               /\ UNCHANGED <<blobUrl, blobUrlRef, imageRef, liveUrls>>
               /\ CommitState(canvas, timers)
        ELSE IF load.type = "images"
          THEN /\ blobUrlRef' = load.id
               /\ liveUrls' = liveUrls \cup {load.id}
               /\ imageRef' = [id |-> load.id, fileName |-> load.fileName]
               /\ loads' = (loads \ {load}) \cup {[load EXCEPT !.stage = "decode"]}
               /\ UNCHANGED <<blobUrl, mdLoading, mdError>>
               /\ CommitState(canvas, timers)
        ELSE /\ blobUrlRef' = load.id
             /\ liveUrls' = liveUrls \cup {load.id}
             /\ blobUrl' = load.id
             /\ mdLoading' = FALSE
             /\ loads' = loads \ {load}
             /\ UNCHANGED <<imageRef, mdError>>
             /\ CommitState(canvas, timers (+) SetToBag({"videoWatermark"}))

\* img.onload: the image is loaded, the 50 ms timer is started
ImageOnLoad(load) ==
  /\ load \in loads
  /\ load.stage = "decode"
  /\ decoded' = decoded \cup {load.id}
  /\ loads' = (loads \ {load}) \cup {[load EXCEPT !.stage = "timer"]}
  /\ UNCHANGED <<mounted, mdFileName, mdType, mdFullSize, watermarkText, mdLoading,
                 mdError, blobUrl, blobUrlRef, imageRef, canvas, videoCanvas, timers,
                 liveUrls, nLoads, serverVars, homeVars, visibleDraws, videoEl,
                 observed, overlayState>>

\* ImageOnError without setLoading(false)
ImageOnErrorStillLoading(load) ==
  /\ load \in loads
  /\ load.stage = "decode"
  /\ mdError' = "Failed to load image"
  /\ mdLoading' = mdLoading
  /\ loads' = loads \ {load}
  /\ UNCHANGED <<mounted, mdFileName, mdType, mdFullSize, watermarkText, blobUrl,
                 blobUrlRef, imageRef, decoded, liveUrls, nLoads, serverVars, homeVars,
                 visibleDraws, observed>>
  /\ CommitState(canvas, timers)

\* img.onerror: the blob is no image, or its URL was revoked before the load
ImageOnError(load) ==
  /\ load \in loads
  /\ load.stage = "decode"
  /\ mdError' = "Failed to load image"
  /\ mdLoading' = FALSE
  /\ loads' = loads \ {load}
  /\ UNCHANGED <<mounted, mdFileName, mdType, mdFullSize, watermarkText, blobUrl,
                 blobUrlRef, imageRef, decoded, liveUrls, nLoads, serverVars, homeVars,
                 visibleDraws, observed>>
  /\ CommitState(canvas, timers)

\* the 50 ms timer of img.onload: drawImageToCanvas(); setLoading(false)
OnLoadTimer(load, ctx) ==
  /\ load \in loads
  /\ load.stage = "timer"
  /\ mdLoading' = FALSE
  /\ loads' = loads \ {load}
  /\ UNCHANGED <<mounted, mdFileName, mdType, mdFullSize, watermarkText, mdError,
                 blobUrl, blobUrlRef, imageRef, decoded, liveUrls, nLoads, serverVars,
                 homeVars, observed>>
  /\ DrawCall
  /\ CommitState(drawImageToCanvas(canvas, imageRef, imageRef.id \in decoded,
                                   watermarkText, ctx), timers)

\* the 100 ms timer of the redraw effect: drawImageToCanvas()
RedrawTimer(ctx) ==
  /\ BagIn("redraw", timers)
  /\ timers' = timers (-) SetToBag({"redraw"})
  /\ canvas' = drawImageToCanvas(canvas, imageRef, imageRef.id \in decoded,
                                 watermarkText, ctx)
  /\ UNCHANGED <<mounted, mdFileName, mdType, mdFullSize, watermarkText, mdLoading,
                 mdError, blobUrl, blobUrlRef, imageRef, decoded, videoCanvas, loads,
                 liveUrls, nLoads, serverVars, homeVars, videoEl, observed, overlayState>>
  /\ DrawCall

\* the timers that call drawVideoWatermark()
VideoWatermarkTimer(kind, hasSize, ctx) ==
  /\ kind \in {"videoWatermark", "videoRedraw"}
  /\ BagIn(kind, timers)
  /\ timers' = timers (-) SetToBag({kind})
  /\ videoCanvas' = drawVideoWatermark(videoCanvas, ShowsVideo(mdLoading, mdError, mdType),
                                       watermarkText, hasSize, ctx)
  /\ UNCHANGED <<mounted, mdFileName, mdType, mdFullSize, watermarkText, mdLoading,
                 mdError, blobUrl, blobUrlRef, imageRef, decoded, canvas, loads,
                 liveUrls, nLoads, serverVars, homeVars, visibleDraws, videoEl, observed>>
  /\ overlayState' = AfterWatermarkCall(overlayState)

\* the window is resized: handleResize of the load effect
Resize(hasSize, ctx) ==
  /\ mounted
  /\ IF mdType = "images"
       THEN /\ canvas' = IF imageRef # NoImage
                           THEN drawImageToCanvas(canvas, imageRef, imageRef.id \in decoded,
                                                  watermarkText, ctx)
                           ELSE canvas
            /\ UNCHANGED videoCanvas
       ELSE /\ videoCanvas' = drawVideoWatermark(videoCanvas,
                                                 ShowsVideo(mdLoading, mdError, mdType),
                                                 watermarkText, hasSize, ctx)
            /\ UNCHANGED canvas
  /\ UNCHANGED <<mounted, mdFileName, mdType, mdFullSize, watermarkText, mdLoading,
                 mdError, blobUrl, blobUrlRef, imageRef, decoded, loads, timers,
                 liveUrls, nLoads, serverVars, homeVars, videoEl, observed>>
  /\ IF mdType = "images" THEN DrawCall ELSE UNCHANGED visibleDraws
  /\ overlayState' = IF mdType = "images" THEN overlayState
                      ELSE AfterWatermarkCall(AfterSizeChange(overlayState))

\* the <video> element changes its size without the window doing so (its
\* metadata arrives, the layout around it changes): the ResizeObserver calls
\* drawVideoWatermark() if it observes this element
VideoSizeChange(hasSize, ctx) ==
  /\ mounted
  /\ videoEl # NoElement
  /\ videoCanvas' = IF observed = videoEl
                      THEN drawVideoWatermark(videoCanvas, TRUE, watermarkText, hasSize, ctx)
                      ELSE videoCanvas
  /\ overlayState' = IF observed = videoEl
                       THEN AfterWatermarkCall(AfterSizeChange(overlayState))
                       ELSE AfterSizeChange(overlayState)
  /\ UNCHANGED <<mounted, mdFileName, mdType, mdFullSize, watermarkText, mdLoading,
                 mdError, blobUrl, blobUrlRef, imageRef, decoded, canvas, loads, timers,
                 liveUrls, nLoads, serverVars, homeVars, visibleDraws, videoEl, observed>>

NextMedia ==
  \/ \E fileName \in {Name_a_png, Name_v_mp4}, type \in {"images", "videos"},
        fullSize \in BOOLEAN : SetProps(fileName, type, fullSize)
  \/ \E load \in loads, io \in BOOLEAN, arrives \in BOOLEAN : FetchDone(load, io, arrives)
  \/ \E load \in loads : ImageOnLoad(load)
  \/ \E load \in loads : ImageOnError(load)
  \/ \E load \in loads, ctx \in BOOLEAN : OnLoadTimer(load, ctx)
  \/ \E ctx \in BOOLEAN : RedrawTimer(ctx)
  \/ \E kind \in {"videoWatermark", "videoRedraw"}, hasSize \in BOOLEAN, ctx \in BOOLEAN :
       VideoWatermarkTimer(kind, hasSize, ctx)
  \/ \E hasSize \in BOOLEAN, ctx \in BOOLEAN : Resize(hasSize, ctx)
  \/ \E hasSize \in BOOLEAN, ctx \in BOOLEAN : VideoSizeChange(hasSize, ctx)

Init == InitServer /\ HomeStart /\ MediaUnmounted

Next ==
  \/ \E type \in TypeParams, io \in BOOLEAN : ListFiles(type, io)
  \/ \E fileName \in FileParams, type \in TypeParams, io \in BOOLEAN :
       GetMedia(fileName, type, io)
  \/ \E form \in UploadForms, io \in BOOLEAN : Upload(form, io)
  \/ Respond

Spec == Init /\ [][Next]_vars

InitHome ==
  /\ fs = FsPopulated
  /\ last = NoRequest
  /\ uploaded = {}
  /\ lastUpload = NoUpload
  /\ nUploads = 0
  /\ HomeStart
  /\ MediaUnmounted

SpecHome == InitHome /\ [][NextHome]_vars

\* the page seen as tabs and their listings, with both ways a listing fails
NextList ==
  \/ \E t \in {"images", "videos"} : ClickTab(t)
  \/ TabEffect
  \/ \E req \in BagToSet(listReqs), io \in BOOLEAN : ServeList(req, io)
  \/ \E req \in BagToSet(listReqs) : FailList(req)
  \/ \E req \in BagToSet(listReqs) : ListDone(req)

SpecList == InitHome /\ [][NextList]_vars

\* the page used for uploading: tabs, the upload form and listings that are
\* answered
NextUpload ==
  \/ \E t \in {"images", "videos"} : ClickTab(t)
  \/ TabEffect
  \/ \E req \in BagToSet(listReqs) : ServeList(req, FALSE)
  \/ \E req \in BagToSet(listReqs) : ListDone(req)
  \/ \E file \in ChosenFiles : ChooseFile(file)
  \/ \E io \in BOOLEAN : ServeUpload(io)
  \/ FailUpload
  \/ UploadDone

SpecUpload == InitHome /\ [][NextUpload]_vars

\* the same page on a network that also loses list requests
NextUploadFair ==
  \/ NextUpload
  \/ \E req \in BagToSet(listReqs) : FailList(req)

\* The event loop behind the upload form: a pending effect is flushed, no fetch
\* stays pending for ever (one that gets no answer is rejected), and the
\* continuation of a settled fetch is run however often the user clicks.
FairUpload ==
  /\ WF_vars(TabEffect)
  /\ WF_vars(\E req \in BagToSet(listReqs) : FailList(req))
  /\ SF_listReqs(\E req \in BagToSet(listReqs) : ListDoneState(req))
  /\ WF_vars(FailUpload)
  /\ SF_uploadReq(UploadDoneState)

SpecUploadFair == InitHome /\ [][NextUploadFair]_vars /\ FairUpload

InitMedia ==
  /\ fs = FsPopulated
  /\ last = NoRequest
  /\ uploaded = {}
  /\ lastUpload = NoUpload
  /\ nUploads = 0
  /\ HomeStart
  /\ MediaMounted

SpecMedia == InitMedia /\ [][NextMedia]_vars

\* no fetch stays pending for ever (one that gets no answer is rejected),
\* every image fires onload or onerror, every timer fires
FairMedia ==
  /\ WF_vars(\E load \in loads, io \in BOOLEAN : FetchDone(load, io, FALSE))
  /\ WF_vars(\E load \in loads : ImageOnLoad(load) \/ ImageOnError(load))
  /\ WF_vars(\E load \in loads, ctx \in BOOLEAN : OnLoadTimer(load, ctx))
  /\ WF_vars(\E ctx \in BOOLEAN : RedrawTimer(ctx))
  /\ WF_vars(\E kind \in {"videoWatermark", "videoRedraw"}, hasSize \in BOOLEAN,
                ctx \in BOOLEAN : VideoWatermarkTimer(kind, hasSize, ctx))

SpecMediaFair == InitMedia /\ [][NextMedia]_vars /\ FairMedia

\* ===================================================== the route handlers
\* the request in `last`, when it is a well-formed media request
IsMediaRequest ==
  /\ last.req.route = "media"
  /\ ~Falsy(last.req.file)
  /\ ~FalsyType(last.req.type)

\* the folder a media request names and the path its 'file' resolves to
RequestFolder == folderPathOf(last.req.type)
RequestPath == join(RequestFolder, last.req.file)

\* p is the directory d or lies below it
InsideFolder(p, d) == p = d \/ StartsWith(p, d \o <<"/">>)

\* C1: GET /api/media returns bytes only for a path inside the folder of the
\* requested type; a 'file' that resolves outside it (a sibling folder whose
\* name starts with the folder's name included) is answered 404, without
\* content.
C1_MediaStaysInsideFolder ==
  IsMediaRequest =>
    /\ last.resp.kind = "bytes" => InsideFolder(RequestPath, RequestFolder)
    /\ ~InsideFolder(RequestPath, RequestFolder) =>
         last.resp.status = 404 /\ last.resp.kind = "json"

\* C3: a file uploaded with success under name n and type t is in every
\* later successful listing of type t.
C3_UploadedIsListed ==
  (last.req.route = "files" /\ last.resp.status = 200) =>
    \A u \in uploaded :
      u[2] = last.req.type => u[1] \in Range(last.resp.files)

\* C4: after an upload of (n, b, t) was answered with success, GET
\* /api/media?file=n&type=t is answered 200 with body b and a
\* Content-Length that reads as the length of b.
C4_UploadedIsServed ==
  ( /\ IsMediaRequest
    /\ ~last.req.io
    /\ lastUpload # NoUpload
    /\ last.req.file = lastUpload.file.name
    /\ last.req.type = lastUpload.type ) =>
    /\ last.resp.status = 200
    /\ last.resp.kind = "bytes"
    /\ last.resp.body = lastUpload.file.bytes
    /\ ParseDecimal(last.resp.contentLength) = Len(lastUpload.file.bytes)

\* the last piece of a path
Basename(p) == LET parts == Split(p, "/") IN parts[Len(parts)]

\* the names of what directory d holds, read off the paths
NamesIn(d) ==
  { Basename(p) : p \in { q \in fs.dirs \cup DOMAIN fs.files : q # d /\ Dirname(q) = d } }

\* the extensions the listing allows for a type
AllowedExtensions(type) ==
  IF type = "images"
    THEN { <<"j","p","g">>, <<"j","p","e","g">>, <<"p","n","g">>, <<"g","i","f">>,
           <<"w","e","b","p">>, <<"s","v","g">> }
    ELSE { <<"m","p","4">>, <<"w","e","b","m">>, <<"o","g","g">>, <<"m","o","v">> }

\* name has a '.', and what follows the last one is, in lower case, in exts
HasExtensionIn(name, exts) ==
  LET parts == Split(name, ".")
  IN Len(parts) >= 2 /\ ToLowerCase(parts[Len(parts)]) \in exts

\* C5: a successful GET /api/files returns exactly the entries of the
\* selected folder (public/images for 'images', public/videos for anything
\* else) whose name ends, in any case, in an allowed extension; each once.
C5_ListingIsFilteredFolder ==
  (last.req.route = "files" /\ last.resp.status = 200) =>
    LET folder == IF last.req.type = "images"
                    THEN publicPath \o <<"/">> \o imagesDir
                    ELSE publicPath \o <<"/">> \o videosDir
    IN /\ Range(last.resp.files) =
            { n \in NamesIn(folder) : HasExtensionIn(n, AllowedExtensions(last.req.type)) }
       /\ Cardinality(Range(last.resp.files)) = Len(last.resp.files)

\* C5 witness: a listing that returned some entries and left others out
C5_Witness ==
  /\ last.req.route = "files"
  /\ last.resp.status = 200
  /\ last.resp.files # <<>>
  /\ \E n \in NamesIn(folderPathOf(last.req.type)) : n \notin Range(last.resp.files)
  /\ \E n \in Range(last.resp.files) : ToLowerCase(n) # n

\* C6: GET /api/media answers a missing or empty parameter with 400, a file
\* that does not exist in the type's folder with 404, a failed read with 500
\* and a JSON error, and sends no content with any of them.
C6_MediaErrorStatuses ==
  last.req.route = "media" =>
    /\ (Falsy(last.req.file) \/ FalsyType(last.req.type)) => last.resp.status = 400
    /\ IsMediaRequest =>
         LET inFolder == /\ InsideFolder(RequestPath, RequestFolder)
                         /\ existsSync(fs, RequestPath)
             isFile == RequestPath \in DOMAIN fs.files
         IN /\ ~inFolder => last.resp.status = 404
            /\ (inFolder /\ (last.req.io \/ ~isFile)) =>
                 /\ last.resp.status = 500
                 /\ last.resp.kind = "json"
                 /\ last.resp.error = "Failed to serve file"
    /\ last.resp.status # 200 => last.resp.kind = "json"

\* C7: an upload without a 'file' field is answered 400 and changes no
\* stored file; a failure while parsing or writing is answered 500; the
\* success body goes out only when the file was written, and names it.
C7_UploadStatuses ==
  [][ (last = NoRequest /\ last'.req.route = "upload") =>
        LET form == last'.req.form
            resp == last'.resp
            noFile == form.file.kind = "none"
                      \/ (form.file.kind = "text" /\ form.file.text = <<>>)
        IN /\ ~form.parsed => resp.status = 500
           /\ (form.parsed /\ noFile) => (resp.status = 400 /\ fs' = fs)
           /\ (form.parsed /\ ~noFile /\ (form.file.kind = "text" \/ last'.req.io)) =>
                resp.status = 500
           /\ resp.status \in {200, 400, 500}
           /\ resp.status = 200 =>
                LET target == join(folderPathOf(form.type), form.file.name)
                IN /\ form.file.kind = "file"
                   /\ target \in DOMAIN fs'.files
                   /\ fs'.files[target] = form.file.bytes
                   /\ resp.success = TRUE
                   /\ resp.fileName = form.file.name
           /\ resp.status # 200 =>
                /\ "success" \notin DOMAIN resp
                /\ fs'.files = fs.files ]_vars

\* C7 witness: a form without a file was answered 400 while files are stored
C7_Witness ==
  /\ last.req.route = "upload"
  /\ last.req.form.parsed
  /\ last.req.form.file.kind = "none"
  /\ last.resp.status = 400
  /\ DOMAIN fs.files # {}

\* the Content-Type the two tables give a name: looked up by the text after
\* the last '.' (the whole name when it has none), in lower case
TableContentType(type, fileName) ==
  LET parts == Split(fileName, ".")
      ext == ToLowerCase(parts[Len(parts)])
  IN IF type = "images"
       THEN CASE ext \in {<<"j","p","g">>, <<"j","p","e","g">>} -> "image/jpeg"
              [] ext = <<"p","n","g">> -> "image/png"
              [] ext = <<"g","i","f">> -> "image/gif"
              [] ext = <<"w","e","b","p">> -> "image/webp"
              [] ext = <<"s","v","g">> -> "image/svg+xml"
              [] OTHER -> "image/jpeg"
       ELSE CASE ext = <<"m","p","4">> -> "video/mp4"
              [] ext = <<"w","e","b","m">> -> "video/webm"
              [] ext = <<"o","g","g">> -> "video/ogg"
              [] ext = <<"m","o","v">> -> "video/quicktime"
              [] OTHER -> "video/mp4"

\* C8: the Content-Type of a served file is the table entry of the type for
\* the lower-cased text after the last '.' of the name, and the type's
\* fallback (image/jpeg, video/mp4) for anything else; every name a listing
\* returns is served with a table entry.
C8_ContentTypeByTable ==
  /\ (last.req.route = "media" /\ last.resp.kind = "bytes") =>
       last.resp.contentType = TableContentType(last.req.type, last.req.file)
  /\ (last.req.route = "files" /\ last.resp.status = 200) =>
       \A n \in Range(last.resp.files) :
         LET served == MediaRoute(fs, n, IF last.req.type = "images" THEN "images" ELSE "videos", FALSE)
         IN served.kind = "bytes" =>
              ExtOf(n) \in AllowedExtensions(last.req.type)
              /\ served.contentType = TableContentType(last.req.type, n)

\* ------------------------------------------------- the image canvas
ShowsImage(cv) == \E i \in 1..Len(cv.layers) : cv.layers[i].kind = "image"

WatermarkOverImage(cv) ==
  /\ Len(cv.layers) = 2
  /\ cv.layers[1].kind = "image"
  /\ cv.layers[2].kind = "watermark"

C9_OpeningTheModal ==
  /\ [](/\ (view.modal # NoModal) <=> (selectedMedia # NoMedia)
        /\ selectedMedia # NoMedia =>
             view.modal = [fileName |-> selectedMedia.fileName,
                           type |-> selectedMedia.type, fullSize |-> TRUE])
  /\ [][/\ (event'.kind = "cell" /\ activeTab = "images") =>
             selectedMedia' = [fileName |-> event'.cell.fileName, type |-> "images"]
        /\ (event'.kind \in {"cell", "video"} /\ activeTab = "videos") =>
             selectedMedia' = selectedMedia]_vars

C9_Witness ==
  /\ event.kind = "cell"
  /\ activeTab = "images"
  /\ selectedMedia = [fileName |-> event.cell.fileName, type |-> "images"]
  /\ view.modal = [fileName |-> event.cell.fileName, type |-> "images",
                   fullSize |-> TRUE]

\* C10: with the modal open, Escape, a click on the backdrop and a click on
\* the close button each set selectedMedia to null; a click inside the modal
\* content leaves it open; Escape with no modal open changes nothing; none of
\* the four changes activeTab or files
C10_ClosingTheModal ==
  [][/\ (event'.kind \in {"escape", "backdrop", "close"} /\ selectedMedia # NoMedia) =>
         selectedMedia' = NoMedia
     /\ event'.kind = "content" =>
         selectedMedia # NoMedia /\ selectedMedia' = selectedMedia
     /\ (event'.kind = "escape" /\ selectedMedia = NoMedia) =>
         UNCHANGED <<activeTab, files, loading, uploading, uploadMessage, selectedMedia,
                     tabEffect, listReqs, uploadReq, clickTimers, playing,
                     currentlyPlaying, view, serverVars>>
     /\ event'.kind \in {"escape", "backdrop", "close", "content"} =>
         UNCHANGED <<activeTab, files>>]_vars

C10_Witness ==
  /\ event = [kind |-> "escape", open |-> TRUE]
  /\ selectedMedia = NoMedia
  /\ view.modal = NoModal

\* ------------------------------------------------- the load of a medium
\* the load that ends in this step at the given stage
EndsAt(load, stage) == load \in loads /\ load.stage = stage /\ loads' = loads \ {load}

\* C11: a load starts with loading = true and error = null; a response that
\* is not OK or a rejected fetch ends with error 'Failed to load media' and
\* loading = false; an image that fails to decode ends with error 'Failed to
\* load image' and loading = false; with an error and loading = false the
\* error text is rendered and neither the canvas nor the video; every started
\* load eventually reaches loading = false
C11_LoadOutcomes ==
  /\ [](mdError # NoError /\ ~mdLoading =>
          /\ MediaRender(mdLoading, mdError, mdType) = "error"
          /\ ~canvas.mounted
          /\ ~videoCanvas.mounted
          /\ ~ShowsVideo(mdLoading, mdError, mdType))
  /\ [][/\ nLoads' # nLoads => mdLoading' /\ mdError' = NoError
        /\ \A load \in loads :
             /\ (EndsAt(load, "fetch") /\ blobUrlRef' # load.id) =>
                  mdError' = "Failed to load media" /\ ~mdLoading'
             /\ EndsAt(load, "decode") =>
                  mdError' = "Failed to load image" /\ ~mdLoading']_vars
  /\ (mdLoading ~> ~mdLoading)

C11_Witness ==
  /\ mdError = "Failed to load image"
  /\ ~mdLoading
  /\ MediaRender(mdLoading, mdError, mdType) = "error"
  /\ loads = {}

\* ---------------------------------------------- the first visible draw
\* the image of the latest load, number n, has fired onload
ImageLoaded(n) == nLoads = n /\ imageRef # NoImage /\ imageRef.id = n /\ n \in decoded

\* C12: after an image load succeeded (response OK, onload fired) some call of
\* drawImageToCanvas runs while the canvas is mounted and imageRef holds the
\* loaded image, unless the props change before
C12_LoadedImageIsDrawn ==
  \A n \in 1..MaxLoads : ImageLoaded(n) ~> (nLoads # n \/ n \in visibleDraws)

\* ------------------------------------------------- the list of the page
\* what /api/files lists for a type right now
ListingOf(type) ==
  LET listed == FilesRoute(fs, type, FALSE)
  IN IF listed.status = 200 THEN listed.files ELSE <<>>

\* the fetchFiles call that ends in this step
Settles(req) ==
  /\ BagIn(req, listReqs)
  /\ req.resp # NoResp
  /\ listReqs' = listReqs (-) SetToBag({req})

\* C13: once no list request is in flight, files holds names of the active
\* tab's listing only, never the listing of the other tab
C13_FilesOfActiveTab ==
  (~tabEffect /\ BagCardinality(listReqs) = 0) =>
    Range(files) \subseteq Range(ListingOf(activeTab))

\* C14: whenever the grid is rendered, every MediaDisplay in it gets a file
\* name from the listing of the type it gets
C14_CellsMatchTheirType ==
  view.grid.state = "grid" =>
    \A i \in 1..Len(view.grid.cells) :
      view.grid.cells[i].fileName \in Range(ListingOf(view.grid.cells[i].type))

\* C15: loading is true whenever a list request is in flight and false
\* whenever none is
C15_LoadingWhileInFlight ==
  ~tabEffect => (loading <=> BagCardinality(listReqs) > 0)

\* C16: a list request that is rejected, or answered without a files array
\* (the route's 500 body), sets files to [] and loading to false, and the
\* page shows 'No <tab> found'
C16_FailedListingShowsEmpty ==
  [][\A req \in BagToSet(listReqs) :
       (Settles(req) /\ (req.resp.kind = "rejected" \/ "files" \notin DOMAIN req.resp)) =>
         /\ files' = <<>>
         /\ ~loading'
         /\ view'.grid = [state |-> "empty", cells |-> <<>>]]_vars

C16_Witness ==
  /\ ~tabEffect
  /\ BagCardinality(listReqs) = 0
  /\ ListingOf(activeTab) # <<>>
  /\ files = <<>>
  /\ ~loading
  /\ view.grid.state = "empty"

\* ---- C17: one upload at a time ----

\* the step starts a POST /api/upload
StartsUpload ==
  /\ uploadReq' # NoReq
  /\ uploadReq' # uploadReq
  /\ uploadReq'.resp = NoResp

\* C17: uploading is true exactly while an upload request has been started and
\* its handler has not finished, the file input is disabled exactly while
\* uploading is true, and a POST /api/upload is started only when no other
\* upload is in flight.
C17_OneUploadAtATime ==
  /\ [](/\ uploading <=> uploadReq # NoReq
        /\ view.inputDisabled <=> uploading)
  /\ [][StartsUpload => (uploadReq = NoReq /\ ~uploading /\ uploading')]_vars

\* an upload whose response has arrived is still marked as uploading, with the
\* input disabled
C17_Witness ==
  /\ uploadReq # NoReq
  /\ uploadReq.resp \notin {NoResp, Rejected}
  /\ uploading
  /\ view.inputDisabled

\* ---- C18: every upload ends with a message ----

\* the step ends the upload whose request is uploadReq
EndsUpload == uploading /\ ~uploading'

\* C18: every started upload eventually ends with uploading = false and a
\* non-empty uploadMessage, and the message of the step that ends it is
\* 'File uploaded successfully!' for an OK response, the server's error text or
\* 'Upload failed' for another response, and 'Upload failed. Please try again.'
\* when the fetch or the parsing of its body threw.
C18_UploadEnds ==
  /\ [][EndsUpload =>
          /\ uploadReq # NoReq /\ uploadReq.resp # NoResp
          /\ uploadMessage' # ""
          /\ uploadMessage' =
               IF uploadReq.resp.kind = "rejected"
                 THEN "Upload failed. Please try again."
               ELSE IF uploadReq.resp.status = 200 THEN "File uploaded successfully!"
               ELSE IF uploadReq.resp.error # "" THEN uploadReq.resp.error
               ELSE "Upload failed"]_vars
  /\ uploading ~> (~uploading /\ uploadMessage # "")

\* an upload the server refused has ended with the server's error text
C18_Witness ==
  /\ ~uploading
  /\ uploadReq = NoReq
  /\ nUploads > 0
  /\ uploadMessage \notin {"", "File uploaded successfully!", "Upload failed",
                           "Upload failed. Please try again.",
                           "Please select an image file", "Please select a video file"}

\* ---- C19: client-side validation ----

\* file.type does not start with the prefix the active tab asks for
WrongTypeForTab(file) ==
  /\ file # NoFile
  /\ \/ activeTab = "images" /\ ~StartsWith(file.type, <<"i","m","a","g","e","/">>)
     \/ activeTab = "videos" /\ ~StartsWith(file.type, <<"v","i","d","e","o","/">>)

\* C19: choosing a file whose MIME type does not fit the active tab sets
\* uploadMessage to 'Please select an image file' / 'Please select a video
\* file', sends no request and leaves uploading, files and the stored files as
\* they are; choosing no file changes nothing at all.
C19_ValidationRejects ==
  [][\A file \in ChosenFiles :
       /\ (ChooseFile(file) /\ WrongTypeForTab(file)) =>
            /\ uploadMessage' = IF activeTab = "images"
                                  THEN "Please select an image file"
                                  ELSE "Please select a video file"
            /\ UNCHANGED <<uploadReq, listReqs, uploading, files, serverVars>>
       /\ (ChooseFile(file) /\ file = NoFile) => UNCHANGED vars]_vars

\* a video chosen on the images tab was rejected before anything was uploaded
C19_Witness ==
  /\ activeTab = "images"
  /\ uploadMessage = "Please select an image file"
  /\ ~uploading
  /\ uploadReq = NoReq
  /\ nUploads = 0

\* ---- C20: the list is refreshed after a successful upload only ----

\* the response of the upload that the step ends is OK
UploadOk == uploadReq.resp.kind # "rejected" /\ uploadReq.resp.status = 200

\* C20: the step that ends an upload with an OK response starts exactly one
\* list request, for the tab the file was uploaded to; the step that ends a
\* failed upload (another response, or a thrown error) starts no list request
\* and leaves files unchanged.
C20_RefreshAfterUpload ==
  [][EndsUpload =>
       IF UploadOk
         THEN listReqs' = listReqs (+) SetToBag({[type |-> uploadReq.tab, resp |-> NoResp]})
         ELSE listReqs' = listReqs /\ files' = files]_vars

\* a successful upload has just ended and the list of its tab is being fetched
C20_Witness ==
  /\ uploadMessage = "File uploaded successfully!"
  /\ ~uploading
  /\ lastUpload # NoUpload
  /\ BagIn([type |-> lastUpload.type, resp |-> NoResp], listReqs)

\* ---- C21: one video plays at a time ----

\* C21: no two distinct video elements (of the grid or of the modal) play at
\* the same time, and a video that plays is the one handleVideoPlay recorded.
C21_OneVideoPlays ==
  /\ Cardinality(playing) <= 1
  /\ \A video \in playing : video = currentlyPlaying

\* the video of the modal plays next to the grid video of the same file, which
\* does not
C21_Witness ==
  /\ currentlyPlaying # NoVideo
  /\ currentlyPlaying.place = "modal"
  /\ playing = {currentlyPlaying}
  /\ [place |-> "grid", fileName |-> currentlyPlaying.fileName] \in VideoElements(view)

\* ---- C22: object URLs ----

\* C22: every object URL that is neither revoked nor gone belongs to the load
\* of the current fileName and type: the URLs of earlier loads were revoked by
\* the time the props changed and the new load started.
C22_NoLiveUrlOfAnEarlierLoad == \A url \in liveUrls : url = nLoads

\* ---- C23: the watermark overlay of a video ----

\* a video element is on the page and there is a watermark text
OverlayDue == videoEl # NoElement /\ watermarkText # ""

\* after the load the overlay of a new video element is eventually drawn
OverlayDrawnAfterLoad ==
  (OverlayDue /\ overlayState = "blank") ~> (overlayState = "fresh" \/ ~OverlayDue)

\* a resize of the window redraws the overlay
OverlayDrawnOnResize ==
  [][\A hasSize \in BOOLEAN, ctx \in BOOLEAN :
       (Resize(hasSize, ctx) /\ OverlayDue) => overlayState' = "fresh"]_vars

\* in fullSize mode the ResizeObserver is attached to the video element on the
\* page, and a change of the size of that element redraws the overlay
OverlayDrawnOnSizeChange ==
  /\ []((OverlayDue /\ mdFullSize) => observed = videoEl)
  /\ [][\A hasSize \in BOOLEAN, ctx \in BOOLEAN :
          (VideoSizeChange(hasSize, ctx) /\ OverlayDue /\ mdFullSize)
            => overlayState' = "fresh"]_vars

\* C23: for a video with a watermark text the overlay is eventually drawn
\* with the size of the video element after the load, it is redrawn after
\* every resize of the window and, in fullSize mode, after every change of the
\* size of the video element, which the ResizeObserver of the load effect
\* observes.
C23_OverlayFollowsTheVideo ==
  /\ OverlayDrawnAfterLoad
  /\ OverlayDrawnOnResize
  /\ OverlayDrawnOnSizeChange


\* the paths of regular files that a step created or whose bytes it changed
WrittenPaths ==
  { p \in DOMAIN fs'.files : p \notin DOMAIN fs.files \/ fs'.files[p] # fs.files[p] }

\* C24: POST /api/upload writes only inside the folder of the submitted
\* type: whatever the multipart file name and the type value, every file a
\* request creates or modifies lies within public/images when the type is
\* 'images' and within public/videos otherwise.
C24_UploadStaysInsideFolder ==
  [][\A form \in UploadForms, io \in BOOLEAN :
       Upload(form, io) =>
         \A p \in WrittenPaths :
           /\ p # folderPathOf(form.type)
           /\ InsideFolder(p, folderPathOf(form.type))]_vars

====
